---------------------------- MODULE Spec2Model ----------------------------
(***************************************************************************)
(* Pivot utility (src/src/pivot_util): validation of a PivotSpec against   *)
(* the workbook, resolution of the destination sheet, and the sequence of  *)
(* engine calls generate_pivot makes.                                       *)
(*                                                                         *)
(* Field and column names are sequences of one-character strings, so that  *)
(* str.strip() and str.lower() are computed and not assumed.  Sheet, table *)
(* and pivot-table names are compared with == in the code and are plain    *)
(* strings here.                                                           *)
(***************************************************************************)
EXTENDS Integers, Sequences, FiniteSets, TLC

VARIABLES
    spec,         \* the PivotSpec handed to the call
    sheets,       \* workbook.sheets, in workbook order
    pc,           \* position of the running call
    outcome,      \* how the call ended: type, reason, detail
    ret,          \* value returned by a directly called helper
    pivot_sheet,  \* index in sheets of the resolved destination (0: none yet)
    caches,       \* source ranges of the pivot caches created
    pivot_table,  \* the pivot table created by CreatePivotTable
    calls,        \* external mutating calls made so far, in order
    idx,          \* loop position inside the field loops
    lookups       \* reading calls made on the workbook so far, in order

vars ==
    <<spec, sheets, pc, outcome, ret, pivot_sheet, caches, pivot_table, calls, idx,
      lookups>>

---------------------------------------------------------------------------
(* Bounds of the model *)

\* longest row / column / data field list drawn
MaxFields == 2
\* the small cap drawn for max_row_fields, max_column_fields, max_data_fields
TightCap == 1

(* Defaults of the PivotSpec dataclass *)
DefaultMaxRowFields == 3
DefaultMaxColumnFields == 3
DefaultMaxDataFields == 20

---------------------------------------------------------------------------
(* Python values *)

None == "<None>"

\* truth value of an Optional[str]: None and "" are falsy
Truthy(x) == x # None /\ x # ""

Whitespace == {" ", "\t"}

LowerChar(c) ==
    CASE c = "A" -> "a"
      [] c = "B" -> "b"
      [] c = "C" -> "c"
      [] c = "X" -> "x"
      [] OTHER -> c

\* str.lower()
Lower(s) == [i \in 1..Len(s) |-> LowerChar(s[i])]

SetMin(S) == CHOOSE m \in S : \A n \in S : m <= n
SetMax(S) == CHOOSE m \in S : \A n \in S : m >= n

\* str.strip(): leading and trailing whitespace removed
Strip(s) ==
    LET keep == {i \in 1..Len(s) : s[i] \notin Whitespace}
    IN  IF keep = {} THEN <<>> ELSE SubSeq(s, SetMin(keep), SetMax(keep))

\* name.strip().lower()
Normalize(name) == Lower(Strip(name))

SeqRange(s) == {s[i] : i \in 1..Len(s)}

RECURSIVE JoinComma(_)
\* ', '.join(names)
JoinComma(names) ==
    IF Len(names) = 0 THEN <<>>
    ELSE IF Len(names) = 1 THEN names[1]
    ELSE names[1] \o <<",", " ">> \o JoinComma(Tail(names))

---------------------------------------------------------------------------
(* constants.py *)

XL_ROW_FIELD == 1
XL_COLUMN_FIELD == 2
XL_DATA_FIELD == 4
XL_SUM == -4157
XL_COUNT == -4112
XL_AVG == -4106
XL_DATABASE == 1

EXISTING_CLEAR == "existing_clear"
EXISTING_FORCE_CLEAR == "existing_force_clear"
EXISTING_NO_CLEAR == "existing_no_clear"
\* DestinationHandling.NEW (NEW is a reserved word of TLA+)
HandlingNEW == "new"
DestinationHandling == {EXISTING_CLEAR, EXISTING_FORCE_CLEAR, EXISTING_NO_CLEAR, HandlingNEW}

SUM == "sum"
COUNT == "count"
AVG == "avg"
SummaryFunction == {SUM, COUNT, AVG}

---------------------------------------------------------------------------
(* errors.py, and the results of a call *)

NoError == [type |-> "ok", reason |-> "", detail |-> <<>>]
Running == [type |-> "running", reason |-> "", detail |-> <<>>]
ValidationError(reason, detail) ==
    [type |-> "ValidationError", reason |-> reason, detail |-> detail]
DestinationError(reason) ==
    [type |-> "DestinationError", reason |-> reason, detail |-> <<>>]
EngineError == [type |-> "EngineError", reason |-> "engine", detail |-> <<>>]

---------------------------------------------------------------------------
(* _validate_spec_inputs *)

\* a variant without the loop over the data fields' functions
ValidateSpecInputs_NoFunctionCheck(s) ==
    IF Len(s.row_fields) > s.max_row_fields
        THEN ValidationError("row_depth", <<>>)
    ELSE IF Len(s.column_fields) > s.max_column_fields
        THEN ValidationError("column_depth", <<>>)
    ELSE IF Len(s.data_fields) = 0
        THEN ValidationError("no_data_fields", <<>>)
    ELSE IF Len(s.data_fields) > s.max_data_fields
        THEN ValidationError("data_field_count", <<>>)
    ELSE NoError

\* a variant that tests the column depth before the row depth and the
\* functions before the data-field counts
ValidateSpecInputs_Reordered(s) ==
    LET bad == {i \in 1..Len(s.data_fields) :
                    s.data_fields[i].function \notin SummaryFunction}
    IN  IF Len(s.column_fields) > s.max_column_fields
            THEN ValidationError("column_depth", <<>>)
        ELSE IF Len(s.row_fields) > s.max_row_fields
            THEN ValidationError("row_depth", <<>>)
        ELSE IF bad # {}
            THEN ValidationError("unsupported_function",
                                 <<s.data_fields[SetMin(bad)].name>>)
        ELSE IF Len(s.data_fields) = 0
            THEN ValidationError("no_data_fields", <<>>)
        ELSE IF Len(s.data_fields) > s.max_data_fields
            THEN ValidationError("data_field_count", <<>>)
        ELSE NoError

ValidateSpecInputs(s) ==
    IF Len(s.row_fields) > s.max_row_fields
        THEN ValidationError("row_depth", <<>>)
    ELSE IF Len(s.column_fields) > s.max_column_fields
        THEN ValidationError("column_depth", <<>>)
    ELSE IF Len(s.data_fields) = 0
        THEN ValidationError("no_data_fields", <<>>)
    ELSE IF Len(s.data_fields) > s.max_data_fields
        THEN ValidationError("data_field_count", <<>>)
    ELSE LET bad == {i \in 1..Len(s.data_fields) :
                        s.data_fields[i].function \notin SummaryFunction}
         IN  IF bad # {}
                THEN ValidationError("unsupported_function",
                                     <<s.data_fields[SetMin(bad)].name>>)
                ELSE NoError

(* _find_list_object: the first sheet, in workbook order, whose
   ListObjects(table_name) does not raise; 0 stands for None *)
FindListObject(shs, table_name) ==
    LET has == {i \in 1..Len(shs) : table_name \in DOMAIN shs[i].tables}
    IN  IF has = {} THEN 0 ELSE SetMin(has)

(* _list_object_column_names: [] when the engine raises *)
ListObjectColumnNames(list_object) ==
    IF list_object.broken THEN <<>> ELSE list_object.columns

\* a variant that strips the names and forgets lower()
ValidateUniqueColumnNames_NoLower(column_names) ==
    LET stripped == [i \in 1..Len(column_names) |-> Strip(column_names[i])]
    IN  IF Len(stripped) # Cardinality(SeqRange(stripped))
            THEN ValidationError("duplicate_columns", <<>>)
            ELSE NoError

(* _validate_unique_column_names *)
ValidateUniqueColumnNames(column_names) ==
    LET lowered == [i \in 1..Len(column_names) |-> Normalize(column_names[i])]
    IN  IF Len(lowered) # Cardinality(SeqRange(lowered))
            THEN ValidationError("duplicate_columns", <<>>)
            ELSE NoError

FieldNames(fields) == [i \in 1..Len(fields) |-> fields[i].name]

\* requested.extend(row names); .extend(column names); .extend(data names)
Requested(row_fields, column_fields, data_fields) ==
    FieldNames(row_fields) \o FieldNames(column_fields) \o FieldNames(data_fields)

\* a variant that reports the first missing name only
ValidateFieldNamesExist_FirstOnly(row_fields, column_fields, data_fields, column_names) ==
    LET existing == {Normalize(column_names[i]) : i \in 1..Len(column_names)}
        IsMissing(name) == Normalize(name) \notin existing
        missing == SelectSeq(Requested(row_fields, column_fields, data_fields),
                             IsMissing)
    IN  IF missing # <<>>
            THEN ValidationError("fields_not_found", <<Head(missing)>>)
            ELSE NoError

\* a variant that strips both sides and forgets lower()
ValidateFieldNamesExist_NoLower(row_fields, column_fields, data_fields, column_names) ==
    LET existing == {Strip(column_names[i]) : i \in 1..Len(column_names)}
        IsMissing(name) == Strip(name) \notin existing
        missing == SelectSeq(Requested(row_fields, column_fields, data_fields),
                             IsMissing)
    IN  IF missing # <<>>
            THEN ValidationError("fields_not_found", missing)
            ELSE NoError

(* _validate_field_names_exist *)
ValidateFieldNamesExist(row_fields, column_fields, data_fields, column_names) ==
    LET existing == {Normalize(column_names[i]) : i \in 1..Len(column_names)}
        IsMissing(name) == Normalize(name) \notin existing
        missing == SelectSeq(Requested(row_fields, column_fields, data_fields),
                             IsMissing)
    IN  IF missing # <<>>
            THEN ValidationError("fields_not_found", missing)
            ELSE NoError

\* the text of the "Fields not found in table: ..." message after the colon
ErrorText(error) == JoinComma(error.detail)

\* a variant that looks at the first sheet only
ValidatePivotTableNameUnique_FirstSheet(shs, pivot_table_name) ==
    IF /\ Len(shs) > 0
       /\ ~shs[1].pivots_broken
       /\ pivot_table_name \in SeqRange(shs[1].pivots)
        THEN ValidationError("pivot_name_exists", <<>>)
        ELSE NoError

\* a variant that looks at the last sheet of the workbook only
ValidatePivotTableNameUnique_LastSheet(shs, pivot_table_name) ==
    IF /\ Len(shs) > 0
       /\ ~shs[Len(shs)].pivots_broken
       /\ pivot_table_name \in SeqRange(shs[Len(shs)].pivots)
        THEN ValidationError("pivot_name_exists", <<>>)
        ELSE NoError

(* _validate_pivot_table_name_unique: a sheet whose PivotTables() raises is
   skipped *)
ValidatePivotTableNameUnique(shs, pivot_table_name) ==
    IF \E i \in 1..Len(shs) :
          /\ ~shs[i].pivots_broken
          /\ pivot_table_name \in SeqRange(shs[i].pivots)
        THEN ValidationError("pivot_name_exists", <<>>)
        ELSE NoError

\* one reading call on the workbook; sheet is the index of the sheet asked,
\* 0 when the workbook itself is asked
Lookup(op, sheet) == [op |-> op, sheet |-> sheet]

\* _find_list_object: ListObjects(table_name) on one sheet after the other,
\* up to the first that does not raise
FindListObjectLookups(shs, table_name) ==
    LET at == FindListObject(shs, table_name)
        last == IF at = 0 THEN Len(shs) ELSE at
    IN  [i \in 1..last |-> Lookup("ListObjects", i)]

\* _validate_pivot_table_name_unique: PivotTables() on one sheet after the
\* other, up to the first that holds the name
PivotTableNameLookups(shs, pivot_table_name) ==
    LET has == {i \in 1..Len(shs) :
                    /\ ~shs[i].pivots_broken
                    /\ pivot_table_name \in SeqRange(shs[i].pivots)}
        last == IF has = {} THEN Len(shs) ELSE SetMin(has)
    IN  [i \in 1..last |-> Lookup("PivotTables", i)]

\* a variant that looks the source table up before the structural checks
ValidationLookups_TableFirst(s, shs) ==
    LET at == FindListObject(shs, s.table_name)
    IN  IF ValidateSpecInputs(s) # NoError \/ at = 0
            THEN FindListObjectLookups(shs, s.table_name)
        ELSE LET column_names == ListObjectColumnNames(shs[at].tables[s.table_name])
                 read == FindListObjectLookups(shs, s.table_name)
                            \o <<Lookup("ListColumns", at)>>
             IN  IF \/ ValidateUniqueColumnNames(column_names) # NoError
                    \/ ValidateFieldNamesExist(s.row_fields, s.column_fields,
                                               s.data_fields, column_names) # NoError
                    THEN read
                    ELSE read \o PivotTableNameLookups(shs, s.pivot_table_name)

\* the reading calls _validate_and_get_table makes, in order, up to the
\* statement that raises
ValidationLookups(s, shs) ==
    LET at == FindListObject(shs, s.table_name)
    IN  IF ValidateSpecInputs(s) # NoError THEN <<>>
        ELSE IF at = 0 THEN FindListObjectLookups(shs, s.table_name)
        ELSE LET column_names == ListObjectColumnNames(shs[at].tables[s.table_name])
                 read == FindListObjectLookups(shs, s.table_name)
                            \o <<Lookup("ListColumns", at)>>
             IN  IF \/ ValidateUniqueColumnNames(column_names) # NoError
                    \/ ValidateFieldNamesExist(s.row_fields, s.column_fields,
                                               s.data_fields, column_names) # NoError
                    THEN read
                    ELSE read \o PivotTableNameLookups(shs, s.pivot_table_name)

\* a variant that does not look for the pivot-table name in the workbook
ValidateAndGetTable_NoPivotNameCheck(s, shs) ==
    LET e1 == ValidateSpecInputs(s)
        at == FindListObject(shs, s.table_name)
    IN  IF e1 # NoError THEN e1
        ELSE IF at = 0 THEN ValidationError("table_not_found", <<>>)
        ELSE LET column_names == ListObjectColumnNames(shs[at].tables[s.table_name])
                 e2 == ValidateUniqueColumnNames(column_names)
                 e3 == ValidateFieldNamesExist(s.row_fields, s.column_fields,
                                               s.data_fields, column_names)
             IN  IF e2 # NoError THEN e2 ELSE e3

(* _validate_and_get_table: the error raised, or NoError *)
ValidateAndGetTable(s, shs) ==
    LET e1 == ValidateSpecInputs(s)
        at == FindListObject(shs, s.table_name)
    IN  IF e1 # NoError THEN e1
        ELSE IF at = 0 THEN ValidationError("table_not_found", <<>>)
        ELSE LET column_names == ListObjectColumnNames(shs[at].tables[s.table_name])
                 e2 == ValidateUniqueColumnNames(column_names)
                 e3 == ValidateFieldNamesExist(s.row_fields, s.column_fields,
                                               s.data_fields, column_names)
                 e4 == ValidatePivotTableNameUnique(shs, s.pivot_table_name)
             IN  IF e2 # NoError THEN e2
                 ELSE IF e3 # NoError THEN e3
                 ELSE e4

---------------------------------------------------------------------------
(* Cell values, as sheet.used_range.value returns them *)

VNone == [t |-> "none", s |-> <<>>, n |-> 0, items |-> <<>>]
VStr(s) == [t |-> "str", s |-> s, n |-> 0, items |-> <<>>]
VNum(n) == [t |-> "num", s |-> <<>>, n |-> n, items |-> <<>>]
VBool(b) == [t |-> "bool", s |-> <<>>, n |-> IF b THEN 1 ELSE 0, items |-> <<>>]
VList(items) == [t |-> "list", s |-> <<>>, n |-> 0, items |-> items]
VTuple(items) == [t |-> "tuple", s |-> <<>>, n |-> 0, items |-> items]

RECURSIVE IsEmptyValue_Falsy(_)
\* a variant that takes every falsy value (0, False) to be empty as well
IsEmptyValue_Falsy(value) ==
    IF value.t = "none" THEN TRUE
    ELSE IF value.t \in {"list", "tuple"}
        THEN \A i \in 1..Len(value.items) : IsEmptyValue_Falsy(value.items[i])
    ELSE IF value.t = "str" THEN Strip(value.s) = <<>>
    ELSE value.n = 0

RECURSIVE IsEmptyValue(_)
(* _is_empty_value *)
IsEmptyValue(value) ==
    IF value.t = "none" THEN TRUE
    ELSE IF value.t \in {"list", "tuple"}
        THEN \A i \in 1..Len(value.items) : IsEmptyValue(value.items[i])
    ELSE IF value.t = "str" THEN Strip(value.s) = <<>>
    ELSE FALSE

(* _is_sheet_empty *)
IsSheetEmpty(sheet) == IsEmptyValue(sheet.used)

---------------------------------------------------------------------------
(* _resolve_destination_sheet *)

\* spec.workbook.sheets[name]: the first sheet of that name, 0 when the
\* lookup raises
SheetNamed(shs, name) ==
    LET has == {i \in 1..Len(shs) : shs[i].name = name}
    IN  IF has = {} THEN 0 ELSE SetMin(has)

Resolved(do, sheet, error) == [do |-> do, sheet |-> sheet, error |-> error]

\* a variant that returns an existing sheet under EXISTING_CLEAR or None
\* without looking at its content
ResolveDestinationSheet_NoEmptyCheck(s, shs) ==
    LET handling == s.destination_handling
        existing_sheet == SheetNamed(shs, s.pivot_sheet_name)
    IN  IF existing_sheet # 0
        THEN IF handling = HandlingNEW
                THEN Resolved("raise", 0, DestinationError("already_exists"))
             ELSE IF handling \in {EXISTING_NO_CLEAR, EXISTING_FORCE_CLEAR,
                                   EXISTING_CLEAR, None}
                THEN Resolved("return", existing_sheet, NoError)
             ELSE Resolved("add", 0, NoError)
        ELSE IF handling \in {EXISTING_CLEAR, EXISTING_FORCE_CLEAR, EXISTING_NO_CLEAR}
                THEN Resolved("raise", 0, DestinationError("not_found"))
                ELSE Resolved("add", 0, NoError)

\* a variant that returns an existing sheet under None whatever it holds
ResolveDestinationSheet_NoneReturnsExisting(s, shs) ==
    LET handling == s.destination_handling
        existing_sheet == SheetNamed(shs, s.pivot_sheet_name)
    IN  IF existing_sheet # 0
        THEN IF handling = HandlingNEW
                THEN Resolved("raise", 0, DestinationError("already_exists"))
             ELSE IF handling \in {EXISTING_NO_CLEAR, EXISTING_FORCE_CLEAR, None}
                THEN Resolved("return", existing_sheet, NoError)
             ELSE IF handling = EXISTING_CLEAR
                THEN IF IsSheetEmpty(shs[existing_sheet])
                        THEN Resolved("return", existing_sheet, NoError)
                        ELSE Resolved("raise", 0, DestinationError("not_empty"))
             ELSE Resolved("add", 0, NoError)
        ELSE IF handling \in {EXISTING_CLEAR, EXISTING_FORCE_CLEAR, EXISTING_NO_CLEAR}
                THEN Resolved("raise", 0, DestinationError("not_found"))
                ELSE Resolved("add", 0, NoError)

\* a variant that treats None as EXISTING_CLEAR in both branches
ResolveDestinationSheet_NoneIsExistingClear(s, shs) ==
    LET handling == s.destination_handling
        existing_sheet == SheetNamed(shs, s.pivot_sheet_name)
    IN  IF existing_sheet # 0
        THEN IF handling = HandlingNEW
                THEN Resolved("raise", 0, DestinationError("already_exists"))
             ELSE IF handling \in {EXISTING_NO_CLEAR, EXISTING_FORCE_CLEAR}
                THEN Resolved("return", existing_sheet, NoError)
             ELSE IF handling \in {EXISTING_CLEAR, None}
                THEN IF IsSheetEmpty(shs[existing_sheet])
                        THEN Resolved("return", existing_sheet, NoError)
                        ELSE Resolved("raise", 0, DestinationError("not_empty"))
             ELSE Resolved("add", 0, NoError)
        ELSE IF handling \in {EXISTING_CLEAR, EXISTING_FORCE_CLEAR,
                              EXISTING_NO_CLEAR, None}
                THEN Resolved("raise", 0, DestinationError("not_found"))
                ELSE Resolved("add", 0, NoError)

\* a variant without the EXISTING_NO_CLEAR branch for an existing sheet
ResolveDestinationSheet_NoClearFallsThrough(s, shs) ==
    LET handling == s.destination_handling
        existing_sheet == SheetNamed(shs, s.pivot_sheet_name)
    IN  IF existing_sheet # 0
        THEN IF handling = HandlingNEW
                THEN Resolved("raise", 0, DestinationError("already_exists"))
             ELSE IF handling = EXISTING_FORCE_CLEAR
                THEN Resolved("return", existing_sheet, NoError)
             ELSE IF handling \in {EXISTING_CLEAR, None}
                THEN IF IsSheetEmpty(shs[existing_sheet])
                        THEN Resolved("return", existing_sheet, NoError)
                        ELSE Resolved("raise", 0, DestinationError("not_empty"))
             ELSE Resolved("add", 0, NoError)
        ELSE IF handling \in {EXISTING_CLEAR, EXISTING_FORCE_CLEAR, EXISTING_NO_CLEAR}
                THEN Resolved("raise", 0, DestinationError("not_found"))
                ELSE Resolved("add", 0, NoError)

(* The branch _resolve_destination_sheet takes: "raise" with the error,
   "return" with the existing sheet, or "add" when control reaches the
   final sheets.add *)
ResolveDestinationSheet(s, shs) ==
    LET handling == s.destination_handling
        existing_sheet == SheetNamed(shs, s.pivot_sheet_name)
    IN  IF existing_sheet # 0
        THEN IF handling = HandlingNEW
                THEN Resolved("raise", 0, DestinationError("already_exists"))
             ELSE IF handling = EXISTING_NO_CLEAR
                THEN Resolved("return", existing_sheet, NoError)
             ELSE IF handling = EXISTING_FORCE_CLEAR
                THEN Resolved("return", existing_sheet, NoError)
             ELSE IF handling \in {EXISTING_CLEAR, None}
                THEN IF IsSheetEmpty(shs[existing_sheet])
                        THEN Resolved("return", existing_sheet, NoError)
                        ELSE Resolved("raise", 0, DestinationError("not_empty"))
             ELSE Resolved("add", 0, NoError)
        ELSE IF handling \in {EXISTING_CLEAR, EXISTING_FORCE_CLEAR, EXISTING_NO_CLEAR}
                THEN Resolved("raise", 0, DestinationError("not_found"))
                ELSE Resolved("add", 0, NoError)

\* the reading calls _resolve_destination_sheet makes: the lookup of the
\* sheet by name, and used_range.value where the content decides
ResolveLookups(s, shs) ==
    LET existing_sheet == SheetNamed(shs, s.pivot_sheet_name)
    IN  <<Lookup("sheets[name]", 0)>>
        \o (IF /\ existing_sheet # 0
                /\ s.destination_handling \in {EXISTING_CLEAR, None}
                THEN <<Lookup("used_range.value", existing_sheet)>> ELSE <<>>)

\* the sheet sheets.add creates
NewSheet(name) ==
    [name |-> name, tables |-> <<>>, pivots |-> <<>>, pivots_broken |-> FALSE,
     used |-> VNone]

\* spec.workbook.sheets.add(name, after=spec.workbook.sheets[-1])
SheetsAdd(shs, name) == Append(shs, NewSheet(name))

\* sheet.clear()
\* a variant of clear() that leaves the content in place
SheetClear_KeepsContent(shs, i) == shs

\* pivot_sheet.clear()
SheetClear(shs, i) == [shs EXCEPT ![i].used = VNone]

Call(op, field, num, str) == [op |-> op, field |-> field, num |-> num, str |-> str]

---------------------------------------------------------------------------
(* _summary_function_to_excel: the code, or the ValidationError raised *)

Mapped(code, error) == [code |-> code, error |-> error]

\* a variant that gives AVG the code of COUNT
SummaryFunctionToExcel_AvgAsCount(function) ==
    IF function = SUM THEN Mapped(XL_SUM, NoError)
    ELSE IF function \in {COUNT, AVG} THEN Mapped(XL_COUNT, NoError)
    ELSE Mapped(0, ValidationError("unsupported_summary", <<>>))

SummaryFunctionToExcel(function) ==
    IF function = SUM THEN Mapped(XL_SUM, NoError)
    ELSE IF function = COUNT THEN Mapped(XL_COUNT, NoError)
    ELSE IF function = AVG THEN Mapped(XL_AVG, NoError)
    ELSE Mapped(0, ValidationError("unsupported_summary", <<>>))

---------------------------------------------------------------------------
(* The inputs drawn *)

SeqsUpTo(S, n) == UNION {[1..k -> S] : k \in 0..n}

RowField(name, caption) == [name |-> name, caption |-> caption]
ColumnField(name, caption) == [name |-> name, caption |-> caption]
DataField(name, function, caption, number_format) ==
    [name |-> name, function |-> function, caption |-> caption,
     number_format |-> number_format]

PivotSpec(rows, cols, datas, handling, caps, style) ==
    [table_name |-> "Table1",
     pivot_sheet_name |-> "Pivot",
     pivot_table_name |-> "PT_Test",
     pivot_top_left_cell |-> "A3",
     row_fields |-> rows,
     column_fields |-> cols,
     data_fields |-> datas,
     destination_handling |-> handling,
     max_row_fields |-> caps.r,
     max_column_fields |-> caps.c,
     max_data_fields |-> caps.d,
     table_style |-> style.table_style,
     show_row_stripes |-> style.show_row_stripes]

DefaultCaps == [r |-> DefaultMaxRowFields, c |-> DefaultMaxColumnFields,
                d |-> DefaultMaxDataFields]
TightCaps == [r |-> TightCap, c |-> TightCap, d |-> TightCap]

\* values destination_handling can hold: the enumeration, the default
\* None, and a value that is no member of the enumeration
Handlings == DestinationHandling \cup {None, "bad"}

Table(columns, broken) == [columns |-> columns, broken |-> broken]

Sheet(name, tables, pivots, pivots_broken, used) ==
    [name |-> name, tables |-> tables, pivots |-> pivots,
     pivots_broken |-> pivots_broken, used |-> used]

NoTables == <<>>

---------------------------------------------------------------------------
(* Direct calls of _validate_and_get_table, as the tests make them *)

\* "A" differs from a column "a" in letter case; "x " matches a column "x"
\* or "X" only once stripped
ValidateRowFields == {RowField(<<"A">>, None), RowField(<<"x", " ">>, "Cap")}
ValidateColumnFields == {ColumnField(<<"B">>, None)}
\* "y" is a column of no table drawn; two fields carry a function that is
\* no SummaryFunction
ValidateDataFields ==
    {DataField(<<"c">>, SUM, None, None),
     DataField(<<"y">>, COUNT, None, None),
     DataField(<<"B">>, "bad", None, None),
     DataField(<<"x">>, "bad", None, None)}

\* column lists: all fields but "y" match; "x " has no match; two columns
\* equal up to case; two columns equal only once stripped; a padded column
ValidateColumnLists ==
    {<< <<"a">>, <<"b">>, <<"C">>, <<"X">> >>,
     << <<"a">>, <<"b">>, <<"C">> >>,
     << <<"a">>, <<"A">>, <<"b">>, <<"c">>, <<"x">> >>,
     << <<"a">>, <<"a", " ">>, <<"b">>, <<"c">>, <<"x">> >>,
     << <<"x">>, <<"\t", "B">>, <<"A">>, <<"c">> >>}

\* Table1 on the first sheet: absent, unreadable, or with the columns drawn
ValidateTables ==
    {NoTables}
    \cup {"Table1" :> Table(<<>>, TRUE)}
    \cup {"Table1" :> Table(columns, FALSE) : columns \in ValidateColumnLists}

\* the pivot tables of the second sheet: others only, the requested name
\* among them, or a sheet whose PivotTables() raises
ValidatePivots ==
    {[pivots |-> <<"PT_Other">>, broken |-> FALSE],
     [pivots |-> <<"PT_Other", "PT_Test">>, broken |-> FALSE],
     [pivots |-> <<>>, broken |-> TRUE]}

\* what a directly called helper returned
Returned(fn, value) == [fn |-> fn, value |-> value]
NoReturn == Returned("", 0)

NoStyle == [table_style |-> None, show_row_stripes |-> TRUE]

NoPivotTable ==
    [created |-> FALSE, sheet |-> 0, cell |-> "", name |-> "", fields |-> <<>>,
     TableStyle2 |-> None, ShowTableStyleRowStripes |-> None]

InitValidate ==
    /\ \E rows \in SeqsUpTo(ValidateRowFields, MaxFields),
          cols \in SeqsUpTo(ValidateColumnFields, MaxFields),
          datas \in SeqsUpTo(ValidateDataFields, MaxFields),
          caps \in {TightCaps, DefaultCaps} :
            spec = PivotSpec(rows, cols, datas, None, caps, NoStyle)
    /\ \E tables \in ValidateTables, p \in ValidatePivots :
            sheets = << Sheet("Data", tables, <<>>, FALSE, VNone),
                        Sheet("Other", NoTables, p.pivots, p.broken, VNone) >>
    /\ pc = "call"
    /\ outcome = Running
    /\ ret = NoReturn
    /\ pivot_sheet = 0
    /\ caches = <<>>
    /\ pivot_table = NoPivotTable
    /\ calls = <<>>
    /\ idx = 0
    /\ lookups = <<>>

\* list_object = _validate_and_get_table(spec): raises, or returns the table
\* (here: the index of the sheet that holds it)
CallValidateAndGetTable ==
    /\ pc = "call"
    /\ outcome' = ValidateAndGetTable(spec, sheets)
    /\ ret' = Returned("_validate_and_get_table",
                       IF outcome'.type = "ok"
                          THEN FindListObject(sheets, spec.table_name) ELSE 0)
    /\ pc' = "done"
    /\ lookups' = lookups \o ValidationLookups(spec, sheets)
    /\ UNCHANGED <<spec, sheets, pivot_sheet, caches, pivot_table, calls, idx>>

\* the columns of the table the spec names, as the validation reads them
SourceColumns ==
    ListObjectColumnNames(
        sheets[FindListObject(sheets, spec.table_name)].tables[spec.table_name])

\* _validate_field_names_exist(rows, columns, data, column_names) called on
\* its own with the columns of the spec's table
CallValidateFieldNamesExist ==
    /\ pc = "call"
    /\ FindListObject(sheets, spec.table_name) # 0
    /\ outcome' = ValidateFieldNamesExist(spec.row_fields, spec.column_fields,
                                          spec.data_fields, SourceColumns)
    /\ ret' = Returned("_validate_field_names_exist", 0)
    /\ pc' = "done"
    /\ UNCHANGED <<spec, lookups, sheets, pivot_sheet, caches, pivot_table, calls, idx>>

NextValidate ==
    \/ CallValidateAndGetTable
    \/ CallValidateFieldNamesExist

SpecValidate == InitValidate /\ [][NextValidate]_vars

---------------------------------------------------------------------------
(* Resolution of the destination sheet, shared by the direct call and by
   generate_pivot.  `after` is the position reached on a normal return. *)

\* the final sheets.add of _resolve_destination_sheet when a sheet of that
\* name exists: xlwings refuses the name, a bare sheet collection appends
AddRefused == {TRUE, FALSE}

ResolveStep(after) ==
    LET r == ResolveDestinationSheet(spec, sheets)
        name == spec.pivot_sheet_name
        finished == IF after = "done" THEN NoError ELSE outcome
        looked == lookups \o ResolveLookups(spec, sheets)
    IN  \/ /\ r.do = "raise"
           /\ outcome' = r.error
           /\ pc' = "done"
           /\ lookups' = looked
           /\ UNCHANGED <<sheets, pivot_sheet, calls>>
        \/ /\ r.do = "return"
           /\ lookups' = looked
           /\ pivot_sheet' = r.sheet
           /\ outcome' = finished
           /\ pc' = after
           /\ UNCHANGED <<sheets, calls>>
        \/ /\ r.do = "add"
           /\ lookups' = looked
           /\ \E refused \in AddRefused :
                IF refused /\ SheetNamed(sheets, name) # 0
                THEN /\ outcome' = EngineError
                     /\ pc' = "done"
                     /\ UNCHANGED <<sheets, pivot_sheet, calls>>
                ELSE /\ sheets' = SheetsAdd(sheets, name)
                     /\ pivot_sheet' = Len(sheets) + 1
                     /\ calls' = Append(calls, Call("sheets.add", <<>>, 0, name))
                     /\ outcome' = finished
                     /\ pc' = after

---------------------------------------------------------------------------
(* Direct calls of _resolve_destination_sheet, as the tests make them *)

\* contents of the destination's used range
UsedValues ==
    {VNone,
     VStr(<<>>),
     VStr(<<" ", "\t">>),
     VStr(<<"x">>),
     VStr(<<" ", "x", " ">>),
     VNum(0),
     VBool(FALSE),
     VList(<<>>),
     VList(<<VNone, VList(<<VStr(<<>>), VStr(<<" ">>)>>), VList(<<>>)>>),
     VList(<<VNone, VStr(<<"x">>)>>),
     VList(<<VList(<<VNone, VNum(0)>>)>>),
     VTuple(<<VNone, VStr(<<" ">>)>>)}

DataSheet(tables) == Sheet("Data", tables, <<>>, FALSE, VNone)
PivotSheet(used) == Sheet("Pivot", NoTables, <<>>, FALSE, used)

ResolveSheets ==
    {<<DataSheet(NoTables)>>}
    \cup {<<DataSheet(NoTables), PivotSheet(used)>> : used \in UsedValues}
    \cup {<<PivotSheet(used), DataSheet(NoTables)>> : used \in UsedValues}

InitResolve ==
    /\ \E handling \in Handlings :
            spec = PivotSpec(<<>>, <<>>, <<>>, handling, DefaultCaps, NoStyle)
    /\ sheets \in ResolveSheets
    /\ pc = "call"
    /\ outcome = Running
    /\ ret = NoReturn
    /\ pivot_sheet = 0
    /\ caches = <<>>
    /\ pivot_table = NoPivotTable
    /\ calls = <<>>
    /\ idx = 0
    /\ lookups = <<>>

\* _resolve_destination_sheet(spec) called on its own
CallResolveDestinationSheet ==
    /\ pc = "call"
    /\ ResolveStep("done")
    /\ ret' = Returned("_resolve_destination_sheet", 0)
    /\ UNCHANGED <<spec, caches, pivot_table, idx>>

NextResolve == CallResolveDestinationSheet

SpecResolve == InitResolve /\ [][NextResolve]_vars

---------------------------------------------------------------------------
(* Two calls of _resolve_destination_sheet in a row on the same spec and
   workbook; idx counts the calls made, ret keeps what the first returned *)

ResolveFirst ==
    /\ pc = "call"
    /\ ResolveStep("again")
    /\ ret' = Returned("_resolve_destination_sheet", pivot_sheet')
    /\ idx' = 1
    /\ UNCHANGED <<spec, caches, pivot_table>>

ResolveSecond ==
    /\ pc = "again"
    /\ ResolveStep("done")
    /\ idx' = 2
    /\ UNCHANGED <<spec, ret, caches, pivot_table>>

NextResolveTwice == ResolveFirst \/ ResolveSecond

SpecResolveTwice == InitResolve /\ [][NextResolveTwice]_vars

---------------------------------------------------------------------------
(* generate_pivot *)

\* a pivot field as the engine holds it; 0 and None stand for "never set"
NoPivotField ==
    [Orientation |-> 0, Position |-> 0, Function |-> 0, Caption |-> None,
     NumberFormat |-> None]

\* pivot_table.PivotFields(name)
PivotFields(pt, name) ==
    IF name \in DOMAIN pt.fields THEN pt.fields[name] ELSE NoPivotField

\* the pivot table with field `name` replaced by pf
WithField(pt, name, pf) ==
    [pt EXCEPT !.fields = [n \in (DOMAIN pt.fields) \cup {name} |->
                              IF n = name THEN pf ELSE pt.fields[n]]]

\* bool(spec.show_row_stripes), as the engine property holds it
BoolText(b) == IF b THEN "True" ELSE "False"

\* the loop or statement that runs after the data-field loop, the
\* column-field loop, the row-field loop and CreatePivotTable
AfterData == IF Truthy(spec.table_style) THEN "style" ELSE "stripes"
AfterColumns == IF Len(spec.data_fields) > 0 THEN "data" ELSE AfterData
AfterRows == IF Len(spec.column_fields) > 0 THEN "columns" ELSE AfterColumns
\* a variant that leaves out the row-field loop
AfterTable_SkipsRows == AfterRows

AfterTable == IF Len(spec.row_fields) > 0 THEN "rows" ELSE AfterRows

GenerateRowFields == {RowField(<<"A">>, None), RowField(<<"x", " ">>, "Cap")}
GenerateColumnFields == {ColumnField(<<"B">>, "")}
GenerateDataFields ==
    {DataField(<<"c">>, SUM, "Total", "0"),
     DataField(<<"a">>, COUNT, None, None),
     DataField(<<"b">>, AVG, "", ""),
     DataField(<<"x">>, "bad", None, None)}

GenerateColumns == << <<"a">>, <<"b">>, <<"C">>, <<"X">> >>

\* the sheet that holds the data: with Table1, without it, with Table1
\* and a pivot table of the requested name, with a Table1 that lacks "x"
GenerateDataSheets ==
    {Sheet("Data", "Table1" :> Table(GenerateColumns, FALSE), <<>>, FALSE, VNum(1)),
     Sheet("Data", NoTables, <<>>, FALSE, VNum(1)),
     Sheet("Data", "Table1" :> Table(GenerateColumns, FALSE), <<"PT_Test">>, FALSE,
           VNum(1)),
     Sheet("Data", "Table1" :> Table(SubSeq(GenerateColumns, 1, 3), FALSE), <<>>,
           FALSE, VNum(1))}

\* the destination: absent, present and empty, present with content
GenerateDestinations ==
    {<<>>, <<PivotSheet(VStr(<<" ">>))>>, <<PivotSheet(VStr(<<"x">>))>>}

GenerateStyles ==
    {NoStyle, [table_style |-> "PivotStyleMedium9", show_row_stripes |-> FALSE]}

Init ==
    /\ \E rows \in SeqsUpTo(GenerateRowFields, MaxFields),
          cols \in SeqsUpTo(GenerateColumnFields, MaxFields),
          datas \in SeqsUpTo(GenerateDataFields, MaxFields),
          handling \in Handlings,
          style \in GenerateStyles :
            spec = PivotSpec(rows, cols, datas, handling, DefaultCaps, style)
    /\ \E data \in GenerateDataSheets, dest \in GenerateDestinations :
            sheets = <<data>> \o dest
    /\ pc = "validate"
    /\ outcome = Running
    /\ ret = NoReturn
    /\ pivot_sheet = 0
    /\ caches = <<>>
    /\ pivot_table = NoPivotTable
    /\ calls = <<>>
    /\ idx = 0
    /\ lookups = <<>>

\* list_object = _validate_and_get_table(spec)
Validate ==
    /\ pc = "validate"
    /\ LET error == ValidateAndGetTable(spec, sheets)
       IN  IF error # NoError
           THEN /\ outcome' = error
                /\ pc' = "done"
                /\ ret' = ret
           ELSE /\ outcome' = outcome
                /\ pc' = "resolve"
                /\ ret' = Returned("_validate_and_get_table",
                                   FindListObject(sheets, spec.table_name))
    /\ lookups' = lookups \o ValidationLookups(spec, sheets)
    /\ UNCHANGED <<spec, sheets, pivot_sheet, caches, pivot_table, calls, idx>>

\* pivot_sheet = _resolve_destination_sheet(spec)
Resolve ==
    /\ pc = "resolve"
    /\ ResolveStep("clear")
    /\ UNCHANGED <<spec, ret, caches, pivot_table, idx>>

\* if spec.destination_handling == EXISTING_FORCE_CLEAR: pivot_sheet.clear()
Clear ==
    /\ pc = "clear"
    /\ IF spec.destination_handling = EXISTING_FORCE_CLEAR
       THEN /\ sheets' = SheetClear(sheets, pivot_sheet)
            /\ calls' = Append(calls, Call("sheet.clear", <<>>, pivot_sheet, ""))
       ELSE UNCHANGED <<sheets, calls>>
    /\ pc' = "cache"
    /\ UNCHANGED <<spec, lookups, outcome, ret, pivot_sheet, caches, pivot_table, idx>>

\* pivot_cache = PivotCaches().Create(XL_DATABASE, list_object.Range)
CreateCache ==
    /\ pc = "cache"
    /\ caches' = Append(caches, [source_type |-> XL_DATABASE,
                                 sheet |-> ret.value, table |-> spec.table_name])
    /\ calls' = Append(calls, Call("PivotCaches.Create", <<>>, XL_DATABASE,
                                   spec.table_name))
    /\ pc' = "table"
    /\ UNCHANGED <<spec, lookups, sheets, outcome, ret, pivot_sheet, pivot_table, idx>>

\* pivot_table = pivot_cache.CreatePivotTable(dest, spec.pivot_table_name)
CreatePivotTable ==
    /\ pc = "table"
    /\ pivot_table' = [NoPivotTable EXCEPT !.created = TRUE,
                                            !.sheet = pivot_sheet,
                                            !.cell = spec.pivot_top_left_cell,
                                            !.name = spec.pivot_table_name]
    /\ calls' = Append(calls, Call("CreatePivotTable", <<>>, pivot_sheet,
                                   spec.pivot_table_name))
    /\ pc' = AfterTable
    /\ idx' = 1
    /\ UNCHANGED <<spec, lookups, sheets, outcome, ret, pivot_sheet, caches>>

\* the calls of an axis field: Orientation, Position, and Caption when given
AxisCalls(field, orientation, position) ==
    << Call("Orientation", field.name, orientation, ""),
       Call("Position", field.name, position, "") >>
    \o (IF Truthy(field.caption)
            THEN <<Call("Caption", field.name, 0, field.caption)>> ELSE <<>>)

AxisField(pf, field, orientation, position) ==
    [pf EXCEPT !.Orientation = orientation,
               !.Position = position,
               !.Caption = IF Truthy(field.caption) THEN field.caption ELSE @]

\* one pass of: for idx, row_field in enumerate(spec.row_fields, start=1)
ConfigureRowField ==
    /\ pc = "rows"
    /\ LET row_field == spec.row_fields[idx]
           pf == PivotFields(pivot_table, row_field.name)
       IN  /\ pivot_table' = WithField(pivot_table, row_field.name,
                                       AxisField(pf, row_field, XL_ROW_FIELD, idx))
           /\ calls' = calls \o AxisCalls(row_field, XL_ROW_FIELD, idx)
    /\ IF idx < Len(spec.row_fields)
       THEN pc' = pc /\ idx' = idx + 1
       ELSE pc' = AfterRows /\ idx' = 1
    /\ UNCHANGED <<spec, lookups, sheets, outcome, ret, pivot_sheet, caches>>

\* a variant that numbers the column fields on from the row fields
ConfigureColumnField_NumberedAfterRows ==
    /\ pc = "columns"
    /\ LET col_field == spec.column_fields[idx]
           pf == PivotFields(pivot_table, col_field.name)
           position == Len(spec.row_fields) + idx
       IN  /\ pivot_table' = WithField(pivot_table, col_field.name,
                                       AxisField(pf, col_field, XL_COLUMN_FIELD, position))
           /\ calls' = calls \o AxisCalls(col_field, XL_COLUMN_FIELD, position)
    /\ IF idx < Len(spec.column_fields)
       THEN pc' = pc /\ idx' = idx + 1
       ELSE pc' = AfterColumns /\ idx' = 1
    /\ UNCHANGED <<spec, lookups, sheets, outcome, ret, pivot_sheet, caches>>

\* one pass of: for idx, col_field in enumerate(spec.column_fields, start=1)
ConfigureColumnField ==
    /\ pc = "columns"
    /\ LET col_field == spec.column_fields[idx]
           pf == PivotFields(pivot_table, col_field.name)
       IN  /\ pivot_table' = WithField(pivot_table, col_field.name,
                                       AxisField(pf, col_field, XL_COLUMN_FIELD, idx))
           /\ calls' = calls \o AxisCalls(col_field, XL_COLUMN_FIELD, idx)
    /\ IF idx < Len(spec.column_fields)
       THEN pc' = pc /\ idx' = idx + 1
       ELSE pc' = AfterColumns /\ idx' = 1
    /\ UNCHANGED <<spec, lookups, sheets, outcome, ret, pivot_sheet, caches>>

\* one pass of: for data_field in spec.data_fields; the pass ends in a
\* ValidationError when _summary_function_to_excel raises
ConfigureDataField ==
    /\ pc = "data"
    /\ LET data_field == spec.data_fields[idx]
           pf == PivotFields(pivot_table, data_field.name)
           oriented == [pf EXCEPT !.Orientation = XL_DATA_FIELD]
           mapped == SummaryFunctionToExcel(data_field.function)
       IN  IF mapped.error # NoError
           THEN /\ pivot_table' = WithField(pivot_table, data_field.name, oriented)
                /\ calls' = Append(calls, Call("Orientation", data_field.name,
                                               XL_DATA_FIELD, ""))
                /\ outcome' = mapped.error
                /\ pc' = "done"
                /\ idx' = idx
           ELSE /\ pivot_table' =
                    WithField(pivot_table, data_field.name,
                        [oriented EXCEPT
                            !.Function = mapped.code,
                            !.Caption = IF Truthy(data_field.caption)
                                            THEN data_field.caption ELSE @,
                            !.NumberFormat = IF Truthy(data_field.number_format)
                                                THEN data_field.number_format ELSE @])
                /\ calls' = calls
                    \o << Call("Orientation", data_field.name, XL_DATA_FIELD, ""),
                          Call("Function", data_field.name, mapped.code, "") >>
                    \o (IF Truthy(data_field.caption)
                        THEN <<Call("Caption", data_field.name, 0, data_field.caption)>>
                        ELSE <<>>)
                    \o (IF Truthy(data_field.number_format)
                        THEN <<Call("NumberFormat", data_field.name, 0,
                                    data_field.number_format)>>
                        ELSE <<>>)
                /\ outcome' = outcome
                /\ IF idx < Len(spec.data_fields)
                   THEN pc' = pc /\ idx' = idx + 1
                   ELSE pc' = AfterData /\ idx' = 1
    /\ UNCHANGED <<spec, lookups, sheets, ret, pivot_sheet, caches>>

\* if spec.table_style: pivot_table.TableStyle2 = spec.table_style
SetTableStyle ==
    /\ pc = "style"
    /\ pivot_table' = [pivot_table EXCEPT !.TableStyle2 = spec.table_style]
    /\ calls' = Append(calls, Call("TableStyle2", <<>>, 0, spec.table_style))
    /\ pc' = "stripes"
    /\ UNCHANGED <<spec, lookups, sheets, outcome, ret, pivot_sheet, caches, idx>>

\* pivot_table.ShowTableStyleRowStripes = bool(spec.show_row_stripes); return
SetRowStripes ==
    /\ pc = "stripes"
    /\ pivot_table' = [pivot_table EXCEPT
                          !.ShowTableStyleRowStripes = BoolText(spec.show_row_stripes)]
    /\ calls' = Append(calls, Call("ShowTableStyleRowStripes", <<>>, 0,
                                   BoolText(spec.show_row_stripes)))
    /\ outcome' = NoError
    /\ pc' = "done"
    /\ UNCHANGED <<spec, lookups, sheets, ret, pivot_sheet, caches, idx>>

\* the statements that call the engine once the destination is resolved
EngineSteps == {"cache", "table", "rows", "columns", "data", "style", "stripes"}

\* a variant that undoes the pivot table and the cache when the engine raises
EngineRaises_RollsBack ==
    /\ pc \in EngineSteps
    /\ outcome' = EngineError
    /\ pc' = "done"
    /\ pivot_table' = NoPivotTable
    /\ caches' = <<>>
    /\ UNCHANGED <<spec, lookups, sheets, ret, pivot_sheet, calls, idx>>

\* the engine raises in the statement about to run; nothing is caught
EngineRaises ==
    /\ pc \in EngineSteps
    /\ outcome' = EngineError
    /\ pc' = "done"
    /\ UNCHANGED <<spec, lookups, sheets, ret, pivot_sheet, caches, pivot_table, calls, idx>>

Next ==
    \/ Validate
    \/ Resolve
    \/ Clear
    \/ CreateCache
    \/ CreatePivotTable
    \/ ConfigureRowField
    \/ ConfigureColumnField
    \/ ConfigureDataField
    \/ SetTableStyle
    \/ SetRowStripes
    \/ EngineRaises

Spec == Init /\ [][Next]_vars

---------------------------------------------------------------------------
(* generate_pivot on specifications whose caps the caller has lowered, so
   that the lists drawn can exceed them *)

InitCapped ==
    /\ \E rows \in SeqsUpTo(GenerateRowFields, MaxFields),
          cols \in SeqsUpTo(GenerateColumnFields, MaxFields),
          datas \in SeqsUpTo(GenerateDataFields, MaxFields),
          handling \in {None, EXISTING_FORCE_CLEAR},
          style \in GenerateStyles :
            spec = PivotSpec(rows, cols, datas, handling, TightCaps, style)
    /\ \E dest \in GenerateDestinations :
            sheets = << Sheet("Data", "Table1" :> Table(GenerateColumns, FALSE),
                              <<>>, FALSE, VNum(1)) >> \o dest
    /\ pc = "validate"
    /\ outcome = Running
    /\ ret = NoReturn
    /\ pivot_sheet = 0
    /\ caches = <<>>
    /\ pivot_table = NoPivotTable
    /\ calls = <<>>
    /\ idx = 0
    /\ lookups = <<>>

SpecCapped == InitCapped /\ [][Next]_vars

---------------------------------------------------------------------------
(* The invariants of a specification, as the specification document states
   them, over the spec and the workbook of the current state *)

RowDepthOk == Len(spec.row_fields) <= spec.max_row_fields
ColumnDepthOk == Len(spec.column_fields) <= spec.max_column_fields
DataLowerOk == Len(spec.data_fields) >= 1
DataUpperOk == Len(spec.data_fields) <= spec.max_data_fields
FunctionsOk ==
    \A i \in 1..Len(spec.data_fields) :
        spec.data_fields[i].function \in SummaryFunction
StructureOk ==
    RowDepthOk /\ ColumnDepthOk /\ DataLowerOk /\ DataUpperOk /\ FunctionsOk

TableExists == \E i \in 1..Len(sheets) : spec.table_name \in DOMAIN sheets[i].tables

\* the column list of the source table (empty when there is none to read)
Columns == IF TableExists THEN SourceColumns ELSE <<>>

RequestedNames ==
    {spec.row_fields[i].name : i \in 1..Len(spec.row_fields)}
    \cup {spec.column_fields[i].name : i \in 1..Len(spec.column_fields)}
    \cup {spec.data_fields[i].name : i \in 1..Len(spec.data_fields)}

\* equal when compared case-insensitively
EqualIgnoringCase(a, b) == Lower(a) = Lower(b)
\* equal when compared case-insensitively after trimming surrounding whitespace
EqualTrimmedIgnoringCase(a, b) == Lower(Strip(a)) = Lower(Strip(b))

ColumnsUniqueIgnoringCase ==
    \A i, j \in 1..Len(Columns) :
        i # j => ~EqualIgnoringCase(Columns[i], Columns[j])
ColumnsUniqueTrimmed ==
    \A i, j \in 1..Len(Columns) :
        i # j => ~EqualTrimmedIgnoringCase(Columns[i], Columns[j])

MissingIgnoringCase ==
    {n \in RequestedNames :
        ~\E i \in 1..Len(Columns) : EqualIgnoringCase(n, Columns[i])}
MissingTrimmed ==
    {n \in RequestedNames :
        ~\E i \in 1..Len(Columns) : EqualTrimmedIgnoringCase(n, Columns[i])}

PivotTableNames == UNION {SeqRange(sheets[i].pivots) : i \in 1..Len(sheets)}
PivotTableNameFree == spec.pivot_table_name \notin PivotTableNames

ReturnedFrom(fn) == pc = "done" /\ ret.fn = fn

---------------------------------------------------------------------------
(* C2 *)

ClaimedOrder ==
    <<"row_depth", "column_depth", "no_data_fields", "data_field_count",
      "unsupported_function", "table_not_found", "duplicate_columns",
      "fields_not_found", "pivot_name_exists">>

Violated(reason) ==
    CASE reason = "row_depth" -> ~RowDepthOk
      [] reason = "column_depth" -> ~ColumnDepthOk
      [] reason = "no_data_fields" -> ~DataLowerOk
      [] reason = "data_field_count" -> ~DataUpperOk
      [] reason = "unsupported_function" -> ~FunctionsOk
      [] reason = "table_not_found" -> ~TableExists
      [] reason = "duplicate_columns" -> TableExists /\ ~ColumnsUniqueTrimmed
      [] reason = "fields_not_found" -> TableExists /\ MissingTrimmed # {}
      [] reason = "pivot_name_exists" -> ~PivotTableNameFree

ViolatedPlaces == {k \in 1..Len(ClaimedOrder) : Violated(ClaimedOrder[k])}

\* the first data field, in list order, whose function is no SummaryFunction
FirstOffender ==
    LET i == CHOOSE i \in 1..Len(spec.data_fields) :
                /\ spec.data_fields[i].function \notin SummaryFunction
                /\ \A j \in 1..(i - 1) :
                        spec.data_fields[j].function \in SummaryFunction
    IN  spec.data_fields[i].name

\* C2: when a specification violates one or several invariants, validation
\* fails on the first violated one in the order row-depth cap, column-depth
\* cap, data-field lower bound, data-field upper bound, function legality
\* (naming the first offending data field in list order), table existence,
\* duplicate column names, missing field names, pivot-table-name uniqueness.
C2_FirstViolatedInOrder ==
    (ReturnedFrom("_validate_and_get_table") /\ ViolatedPlaces # {}) =>
        /\ outcome.type = "ValidationError"
        /\ outcome.reason = ClaimedOrder[SetMin(ViolatedPlaces)]
        /\ outcome.reason = "unsupported_function" =>
                outcome.detail = <<FirstOffender>>

\* several invariants violated at once, two data fields of different names
\* with an illegal function among them
C2_Witness ==
    /\ ReturnedFrom("_validate_and_get_table")
    /\ Cardinality(ViolatedPlaces) >= 3
    /\ outcome.reason = "unsupported_function"
    /\ Len(spec.data_fields) = 2
    /\ spec.data_fields[1].function \notin SummaryFunction
    /\ spec.data_fields[2].function \notin SummaryFunction
    /\ spec.data_fields[1].name # spec.data_fields[2].name
    /\ outcome.detail = <<spec.data_fields[1].name>>

---------------------------------------------------------------------------
(* C3 *)

\* C3 as stated: validation fails with ValidationError if and only if one of
\* the listed invariants is violated, the column names and the field names
\* being compared case-insensitively.
C3_FailsIffInvariantViolated ==
    ReturnedFrom("_validate_and_get_table") =>
        (outcome.type = "ValidationError" <=>
            ~(/\ StructureOk
              /\ TableExists
              /\ ColumnsUniqueIgnoringCase
              /\ MissingIgnoringCase = {}
              /\ PivotTableNameFree))

\* C3 amended: the same equivalence with names compared case-insensitively
\* after surrounding whitespace is trimmed.
C3_FailsIffInvariantViolatedTrimmed ==
    ReturnedFrom("_validate_and_get_table") =>
        /\ outcome.type \in {"ok", "ValidationError"}
        /\ outcome.type = "ValidationError" <=>
            ~(/\ StructureOk
              /\ TableExists
              /\ ColumnsUniqueTrimmed
              /\ MissingTrimmed = {}
              /\ PivotTableNameFree)

\* a specification accepted although one of its names matches a column only
\* once trimmed
C3_Witness ==
    /\ ReturnedFrom("_validate_and_get_table")
    /\ outcome.type = "ok"
    /\ MissingIgnoringCase # {}
    /\ Len(spec.row_fields) > 0 /\ Len(spec.column_fields) > 0

---------------------------------------------------------------------------
(* C4 *)

RECURSIVE WithoutMatch(_)
\* the names of a list that match no column, in list order
WithoutMatch(names) ==
    IF names = <<>> THEN <<>>
    ELSE (IF Head(names) \in MissingTrimmed THEN <<Head(names)>> ELSE <<>>)
         \o WithoutMatch(Tail(names))

\* C4 as stated: when requested names have no case-insensitive match among
\* the columns, the missing-field check raises one ValidationError reporting
\* exactly the names without a match.
C4_ReportsAllMissing ==
    (ReturnedFrom("_validate_field_names_exist") /\ MissingIgnoringCase # {}) =>
        /\ outcome.type = "ValidationError"
        /\ SeqRange(outcome.detail) = MissingIgnoringCase

\* C4 amended: a name is missing when it has no match among the columns
\* compared case-insensitively after trimming surrounding whitespace; the
\* check then raises one ValidationError whose message lists, comma-joined,
\* every missing name and no name that has a match; otherwise it raises
\* nothing.
C4_ReportsAllMissingTrimmed ==
    ReturnedFrom("_validate_field_names_exist") =>
        IF MissingTrimmed # {}
            THEN /\ outcome.type = "ValidationError"
                 /\ outcome.reason = "fields_not_found"
                 /\ SeqRange(outcome.detail) = MissingTrimmed
                 /\ ErrorText(outcome) =
                        JoinComma(WithoutMatch(
                            Requested(spec.row_fields, spec.column_fields,
                                      spec.data_fields)))
            ELSE outcome = NoError

\* two different names are missing while another requested name has a match
C4_Witness ==
    /\ ReturnedFrom("_validate_field_names_exist")
    /\ Cardinality(MissingTrimmed) >= 2
    /\ RequestedNames \ MissingTrimmed # {}
    /\ outcome.type = "ValidationError"

---------------------------------------------------------------------------
(* C5 *)

MatchesIgnoringCase(n) ==
    \E i \in 1..Len(Columns) : EqualIgnoringCase(n, Columns[i])

\* C5: a requested field name that differs from a column name only in letter
\* case passes the field-existence check, whether it is a row, a column or a
\* data field: it is not reported, and when every requested name is of that
\* kind the check raises nothing.
C5_CaseInsensitiveMatch ==
    ReturnedFrom("_validate_field_names_exist") =>
        /\ \A n \in RequestedNames :
                MatchesIgnoringCase(n) => n \notin SeqRange(outcome.detail)
        /\ (\A n \in RequestedNames : MatchesIgnoringCase(n)) => outcome = NoError

DiffersInCaseOnly(n) ==
    /\ MatchesIgnoringCase(n)
    /\ \A i \in 1..Len(Columns) : n # Columns[i]

\* a row field, a column field and a data field that each differ from their
\* column in letter case only, and the check passes
C5_Witness ==
    /\ ReturnedFrom("_validate_field_names_exist")
    /\ outcome = NoError
    /\ \E i \in 1..Len(spec.row_fields) : DiffersInCaseOnly(spec.row_fields[i].name)
    /\ \E i \in 1..Len(spec.column_fields) :
            DiffersInCaseOnly(spec.column_fields[i].name)
    /\ \E i \in 1..Len(spec.data_fields) : DiffersInCaseOnly(spec.data_fields[i].name)

---------------------------------------------------------------------------
(* C6 *)

\* C6: if two column names of the source table are equal when compared
\* case-insensitively, validation of a spec that passes the structural
\* checks and whose table exists fails with ValidationError, whatever fields
\* are requested.
C6_DuplicateColumnsAlwaysFail ==
    (/\ ReturnedFrom("_validate_and_get_table")
     /\ StructureOk
     /\ TableExists
     /\ ~ColumnsUniqueIgnoringCase) =>
        /\ outcome.type = "ValidationError"
        /\ outcome.reason = "duplicate_columns"

\* duplicate columns, every requested field matches a column and the
\* pivot-table name is free
C6_Witness ==
    /\ ReturnedFrom("_validate_and_get_table")
    /\ StructureOk
    /\ TableExists
    /\ ~ColumnsUniqueIgnoringCase
    /\ RequestedNames # {}
    /\ MissingIgnoringCase = {}
    /\ PivotTableNameFree
    /\ outcome.type = "ValidationError"

---------------------------------------------------------------------------
(* The destination policies of the specification document.  The enumeration
   of the code has four members; the policy the document calls FindOrCreate
   is the one the code gives to a spec without destination_handling (None):
   "handling is None or NEW and the sheet does not exist". *)

CreateNew == HandlingNEW
ReuseIfEmpty == EXISTING_CLEAR
ReuseForceClear == EXISTING_FORCE_CLEAR
ReuseNoClear == EXISTING_NO_CLEAR
FindOrCreate == None
Policies == {CreateNew, ReuseIfEmpty, ReuseForceClear, ReuseNoClear, FindOrCreate}

DestinationExists == SheetNamed(sheets, spec.pivot_sheet_name) # 0
DestinationEmpty == IsSheetEmpty(sheets[SheetNamed(sheets, spec.pivot_sheet_name)])

Fails(reason) == <<"fail", reason>>
ReturnsExisting == <<"return", "">>
CreatesNew == <<"create", "">>

\* the resolution table as the document states it
TableAsStated(exists, policy, empty) ==
    IF exists
    THEN CASE policy = CreateNew -> Fails("already_exists")
           [] policy = ReuseNoClear -> ReturnsExisting
           [] policy = ReuseForceClear -> ReturnsExisting
           [] policy = ReuseIfEmpty ->
                IF empty THEN ReturnsExisting ELSE Fails("not_empty")
           [] policy = FindOrCreate -> ReturnsExisting
    ELSE CASE policy \in {CreateNew, FindOrCreate} -> CreatesNew
           [] policy \in {ReuseIfEmpty, ReuseForceClear, ReuseNoClear} ->
                Fails("not_found")

\* the table with the FindOrCreate row of an existing destination amended
TableAmended(exists, policy, empty) ==
    IF exists /\ policy = FindOrCreate
    THEN IF empty THEN ReturnsExisting ELSE Fails("not_empty")
    ELSE TableAsStated(exists, policy, empty)

\* a step that is a whole call of _resolve_destination_sheet
ResolveCalled == pc = "call" /\ pc' = "done" /\ ret'.fn = "_resolve_destination_sheet"

\* what the call did, read off the step
ResolutionResult ==
    IF outcome'.type = "DestinationError" /\ sheets' = sheets /\ pivot_sheet' = 0
        THEN Fails(outcome'.reason)
    ELSE IF /\ outcome' = NoError
            /\ sheets' = sheets
            /\ pivot_sheet' # 0
            /\ pivot_sheet' = SheetNamed(sheets, spec.pivot_sheet_name)
        THEN ReturnsExisting
    ELSE IF /\ outcome' = NoError
            /\ Len(sheets') = Len(sheets) + 1
            /\ SubSeq(sheets', 1, Len(sheets)) = sheets
            /\ sheets'[Len(sheets')].name = spec.pivot_sheet_name
            /\ IsSheetEmpty(sheets'[Len(sheets')])
            /\ pivot_sheet' = Len(sheets')
        THEN CreatesNew
    ELSE <<"other", "">>

---------------------------------------------------------------------------
(* C7 *)

---------------------------------------------------------------------------
(* C8 *)

---------------------------------------------------------------------------
(* C1 *)

\* the workbooks generate_pivot starts from
InitialWorkbooks ==
    {<<data>> \o dest : data \in GenerateDataSheets, dest \in GenerateDestinations}

\* no sheet was added or cleared, no destination was resolved, no cache or
\* pivot table was created, no engine property was set
NothingMutated ==
    /\ sheets \in InitialWorkbooks
    /\ pivot_sheet = 0
    /\ caches = <<>>
    /\ pivot_table = NoPivotTable
    /\ calls = <<>>

\* C1: whenever generate_pivot ends in a ValidationError, nothing outside
\* the call has been changed: the workbook is one it can start from (no
\* sheet added or cleared), no pivot cache and no pivot table exist, and no
\* field or display property was set; this covers a ValidationError of
\* _summary_function_to_excel, which cannot be raised once validation passed.
C1_ValidationErrorBeforeMutation ==
    (pc = "done" /\ outcome.type = "ValidationError") => NothingMutated

\* generate_pivot ended in the ValidationError for an unsupported function
\* while the destination exists and the policy asks for it to be cleared
C1_Witness ==
    /\ pc = "done"
    /\ outcome.type = "ValidationError"
    /\ outcome.reason = "unsupported_function"
    /\ spec.destination_handling = EXISTING_FORCE_CLEAR
    /\ DestinationExists
    /\ ~DestinationEmpty

---------------------------------------------------------------------------
(* C9 *)

\* C9: once validation has run, a specification whose destination policy is
\* None or is not a member of DestinationHandling has been rejected with
\* a ValidationError.
C9_PolicyOutsideEnumFailsValidation ==
    (pc # "validate" /\ spec.destination_handling \notin DestinationHandling)
        => outcome.type = "ValidationError"

---------------------------------------------------------------------------
(* C10 *)

NoneOnNonEmptyDestination ==
    /\ pc = "done"
    /\ spec.destination_handling = None
    /\ DestinationExists
    /\ ~DestinationEmpty

NoCacheNoPivotTable == caches = <<>> /\ ~pivot_table.created

---------------------------------------------------------------------------
(* C11 *)

\* every invariant validation tests holds of the specification and workbook
AllInvariantsHold ==
    /\ StructureOk
    /\ TableExists
    /\ ColumnsUniqueTrimmed
    /\ MissingTrimmed = {}
    /\ PivotTableNameFree

\* C11: a DestinationError is raised only after the whole validation has
\* succeeded and before any pivot cache or pivot table is created; when
\* generate_pivot ends in a DestinationError, no sheet was created or
\* cleared and no engine configuration call was made.
C11_DestinationErrorAfterValidation ==
    outcome.type = "DestinationError" =>
        /\ pc = "done"
        /\ AllInvariantsHold
        /\ ret.fn = "_validate_and_get_table"
        /\ NothingMutated

\* generate_pivot ended in "already exists" on a valid specification
C11_Witness ==
    /\ pc = "done"
    /\ outcome = DestinationError("already_exists")
    /\ spec.destination_handling = HandlingNEW
    /\ ~DestinationEmpty
    /\ Len(spec.row_fields) > 0

---------------------------------------------------------------------------
(* C12 *)

ForceClear == spec.destination_handling = EXISTING_FORCE_CLEAR

\* statements of generate_pivot after the optional clear
AfterClear ==
    pc \in {"cache", "table", "rows", "columns", "data", "style", "stripes"}
    \/ (pc = "done" /\ outcome.type \in {"ok", "EngineError"})

\* the call log holds a clear of a sheet
ClearLogged == \E k \in 1..Len(calls) : calls[k].op = "sheet.clear"

\* C12: with EXISTING_FORCE_CLEAR and an existing destination (empty or
\* not) a valid specification never ends in a ValidationError or a
\* DestinationError; the step that clears the destination runs while no
\* pivot cache, pivot table or field configuration exists, and everything
\* later finds the destination cleared, the clear being the first external
\* call; under every other policy no sheet is cleared: the only sheet
\* without content is one that sheets.add has just created.
C12_ForceClearBeforeCreation ==
    /\ [](  /\ (ForceClear /\ DestinationExists /\ AllInvariantsHold /\ pc = "done")
                => outcome.type \in {"ok", "EngineError"}
            /\ (ForceClear /\ AfterClear)
                => /\ calls # <<>>
                   /\ calls[1] = Call("sheet.clear", <<>>, pivot_sheet, "")
                   /\ sheets[pivot_sheet].name = spec.pivot_sheet_name
                   /\ sheets[pivot_sheet].used = VNone
            /\ ~ForceClear
                => /\ ~ClearLogged
                   /\ \A i \in 1..Len(sheets) :
                        sheets[i].used = VNone
                            => /\ i = Len(sheets)
                               /\ calls # <<>>
                               /\ calls[1].op = "sheets.add" )
    /\ [][ (pc = "clear" /\ ForceClear)
            => /\ caches = <<>> /\ pivot_table = NoPivotTable /\ calls = <<>>
               /\ sheets' = [sheets EXCEPT ![pivot_sheet].used = VNone]
               /\ caches' = <<>> /\ pivot_table' = NoPivotTable ]_vars

\* generate_pivot succeeded under EXISTING_FORCE_CLEAR, the clear first and
\* the fields configured after it
C12_Witness ==
    /\ pc = "done"
    /\ outcome = NoError
    /\ ForceClear
    /\ calls[1].op = "sheet.clear"
    /\ calls[2].op = "PivotCaches.Create"
    /\ sheets[pivot_sheet].used = VNone
    /\ Len(spec.row_fields) > 0

---------------------------------------------------------------------------
(* C13 *)

\* C13: when the requested pivot-table name is present on a sheet of the
\* workbook, generate_pivot ends in a ValidationError, never in a
\* DestinationError and never in success, for every destination policy and
\* every state of the destination, and nothing was created or cleared.
C13_TakenPivotNameFailsValidation ==
    (~PivotTableNameFree /\ pc # "validate") =>
        /\ pc = "done"
        /\ outcome.type = "ValidationError"
        /\ NothingMutated

\* the name is taken, the policy is NEW and the destination exists: the
\* resolver would have raised DestinationError had it run
C13_Witness ==
    /\ pc = "done"
    /\ ~PivotTableNameFree
    /\ outcome = ValidationError("pivot_name_exists", <<>>)
    /\ spec.destination_handling = HandlingNEW
    /\ DestinationExists
    /\ ~DestinationEmpty

---------------------------------------------------------------------------
(* C14 *)

RECURSIVE EmptyAsStated(_)
\* emptiness as the document defines it
EmptyAsStated(value) ==
    CASE value.t = "none" -> TRUE
      [] value.t = "str" -> \A k \in 1..Len(value.s) : value.s[k] \in Whitespace
      [] value.t \in {"list", "tuple"} ->
            \A k \in 1..Len(value.items) : EmptyAsStated(value.items[k])
      [] OTHER -> FALSE

\* C14: _is_sheet_empty is the recursive predicate of the document: None is
\* empty, a string is empty iff all of it is whitespace, a list or tuple is
\* empty iff every element is, and any other value (0 and False included)
\* is not empty; under EXISTING_CLEAR and None a call of the resolver on an
\* existing destination returns it exactly when its content is empty in
\* this sense and raises "not empty" otherwise.
C14_EmptinessIsRecursive ==
    /\ \A i \in 1..Len(sheets) :
            IsSheetEmpty(sheets[i]) <=> EmptyAsStated(sheets[i].used)
    /\ ( /\ ReturnedFrom("_resolve_destination_sheet")
         /\ spec.destination_handling \in {EXISTING_CLEAR, None}
         /\ DestinationExists )
        => LET used == sheets[SheetNamed(sheets, spec.pivot_sheet_name)].used
           IN  IF EmptyAsStated(used)
                THEN outcome = NoError /\ pivot_sheet # 0
                ELSE outcome = DestinationError("not_empty")

\* the resolver refused a destination whose content is a nested list that
\* holds nothing but None and the number 0
C14_Witness ==
    /\ ReturnedFrom("_resolve_destination_sheet")
    /\ spec.destination_handling = EXISTING_CLEAR
    /\ DestinationExists
    /\ sheets[SheetNamed(sheets, spec.pivot_sheet_name)].used
            = VList(<<VList(<<VNone, VNum(0)>>)>>)
    /\ outcome = DestinationError("not_empty")

---------------------------------------------------------------------------
(* C15 *)

NoClearOnExisting ==
    /\ spec.destination_handling = ReuseNoClear
    /\ DestinationExists

\* C15: with EXISTING_NO_CLEAR on an existing destination, each of two calls
\* of the resolver in a row returns the existing sheet, the second the same
\* sheet as the first, and neither has a side effect: no sheet is added,
\* none is cleared, the workbook's sheets and their contents stay as they
\* were.
C15_NoClearIdempotent ==
    [][ (NoClearOnExisting /\ pc \in {"call", "again"})
        => /\ pc' = (IF pc = "call" THEN "again" ELSE "done")
           /\ outcome'.type # "DestinationError"
           /\ pivot_sheet' = SheetNamed(sheets, spec.pivot_sheet_name)
           /\ pc = "again" => (pivot_sheet' = pivot_sheet /\ pivot_sheet' = ret.value)
           /\ sheets' = sheets
           /\ calls = <<>> /\ calls' = <<>> ]_vars

\* both calls made, on a destination with content
C15_Witness ==
    /\ pc = "done"
    /\ idx = 2
    /\ NoClearOnExisting
    /\ ~DestinationEmpty
    /\ outcome = NoError
    /\ pivot_sheet = ret.value
    /\ sheets[pivot_sheet].name = spec.pivot_sheet_name

---------------------------------------------------------------------------
(* C16 *)

\* generate_pivot returned without raising
Succeeded == pc = "done" /\ outcome = NoError

\* the engine code the document states for an aggregation function
StatedCode(function) ==
    CASE function = SUM -> -4157
      [] function = COUNT -> -4112
      [] function = AVG -> -4106

\* a caption or number format was given: neither None nor the empty string
Provided(text) == text # None /\ text # ""

\* the calls of the log that satisfy Keep(call), in the order made
CallsWhere(Keep(_)) == SelectSeq(calls, Keep)

DataFieldNames == {spec.data_fields[k].name : k \in 1..Len(spec.data_fields)}

\* C16: after a successful generate_pivot the calls that set the data axis,
\* and those that set Function, are one per data field in list order, the
\* function code being -4157 for SUM, -4112 for COUNT, -4106 for AVG; a
\* caption and a number format are set for exactly the data fields that
\* provide one; the engine holds these values for every data field; and
\* _summary_function_to_excel yields ValidationError for every value outside
\* SummaryFunction.
C16_DataFieldsConfigured ==
    /\ Succeeded =>
        LET data == spec.data_fields
            captioned == SelectSeq(data, LAMBDA d : Provided(d.caption))
            formatted == SelectSeq(data, LAMBDA d : Provided(d.number_format))
        IN  /\ CallsWhere(LAMBDA c : c.op = "Orientation" /\ c.num = 4)
                = [k \in 1..Len(data) |-> Call("Orientation", data[k].name, 4, "")]
            /\ CallsWhere(LAMBDA c : c.op = "Function")
                = [k \in 1..Len(data) |->
                        Call("Function", data[k].name, StatedCode(data[k].function), "")]
            /\ CallsWhere(LAMBDA c : c.op = "Caption" /\ c.field \in DataFieldNames)
                = [k \in 1..Len(captioned) |->
                        Call("Caption", captioned[k].name, 0, captioned[k].caption)]
            /\ CallsWhere(LAMBDA c : c.op = "NumberFormat")
                = [k \in 1..Len(formatted) |->
                        Call("NumberFormat", formatted[k].name, 0,
                             formatted[k].number_format)]
            /\ \A k \in 1..Len(data) :
                LET pf == pivot_table.fields[data[k].name]
                IN  /\ pf.Orientation = 4
                    /\ pf.Function = StatedCode(data[k].function)
                    /\ pf.Caption = IF Provided(data[k].caption)
                                        THEN data[k].caption ELSE None
                    /\ pf.NumberFormat = IF Provided(data[k].number_format)
                                            THEN data[k].number_format ELSE None
    /\ \A d \in GenerateDataFields \cup ValidateDataFields :
        LET mapped == SummaryFunctionToExcel(d.function)
        IN  IF d.function \in SummaryFunction
                THEN mapped = Mapped(StatedCode(d.function), NoError)
                ELSE mapped.error.type = "ValidationError"

\* a successful run with an AVG field that gives empty texts followed by a
\* SUM field that gives a caption and a number format
C16_Witness ==
    /\ Succeeded
    /\ Len(spec.data_fields) = 2
    /\ spec.data_fields[1] = DataField(<<"b">>, AVG, "", "")
    /\ spec.data_fields[2] = DataField(<<"c">>, SUM, "Total", "0")
    /\ pivot_table.fields[<<"c">>].NumberFormat = "0"
    /\ pivot_table.fields[<<"b">>].Function = -4106

---------------------------------------------------------------------------
(* C17 *)

RowFieldNames == {spec.row_fields[k].name : k \in 1..Len(spec.row_fields)}
ColumnFieldNames == {spec.column_fields[k].name : k \in 1..Len(spec.column_fields)}

RECURSIVE StatedAxisCalls(_, _, _)
\* the calls the document states for the fields of one axis, from the k-th
\* on: axis, position k, and the caption when one is provided
StatedAxisCalls(fields, axis, k) ==
    IF k > Len(fields) THEN <<>>
    ELSE << Call("Orientation", fields[k].name, axis, ""),
            Call("Position", fields[k].name, k, "") >>
         \o (IF Provided(fields[k].caption)
                THEN <<Call("Caption", fields[k].name, 0, fields[k].caption)>>
                ELSE <<>>)
         \o StatedAxisCalls(fields, axis, k + 1)

\* the places of the list at which a field of this name stands
PlacesOf(fields, name) == {k \in 1..Len(fields) : fields[k].name = name}

\* C17: after a successful generate_pivot the calls made on the row fields
\* are, in the caller's list order, axis = row (1), position k for the k-th
\* row field, and a caption exactly when one is provided; the calls made on
\* the column fields are the same with axis = column (2) and positions that
\* count from 1 within the column list; the engine holds that axis and
\* position for every field named once.
C17_AxisFieldsInListOrder ==
    Succeeded =>
        /\ CallsWhere(LAMBDA c : c.field \in RowFieldNames)
            = StatedAxisCalls(spec.row_fields, 1, 1)
        /\ CallsWhere(LAMBDA c : c.field \in ColumnFieldNames)
            = StatedAxisCalls(spec.column_fields, 2, 1)
        /\ \A k \in 1..Len(spec.row_fields) :
            LET f == spec.row_fields[k]
            IN  PlacesOf(spec.row_fields, f.name) = {k} =>
                    /\ pivot_table.fields[f.name].Orientation = 1
                    /\ pivot_table.fields[f.name].Position = k
                    /\ pivot_table.fields[f.name].Caption
                        = IF Provided(f.caption) THEN f.caption ELSE None
        /\ \A k \in 1..Len(spec.column_fields) :
            LET f == spec.column_fields[k]
            IN  PlacesOf(spec.column_fields, f.name) = {k} =>
                    /\ pivot_table.fields[f.name].Orientation = 2
                    /\ pivot_table.fields[f.name].Position = k
                    /\ pivot_table.fields[f.name].Caption
                        = IF Provided(f.caption) THEN f.caption ELSE None

\* a successful run with two different row fields, the second captioned,
\* and two column fields that give the empty caption
C17_Witness ==
    /\ Succeeded
    /\ Len(spec.row_fields) = 2
    /\ spec.row_fields[1].name # spec.row_fields[2].name
    /\ Provided(spec.row_fields[2].caption)
    /\ pivot_table.fields[spec.row_fields[2].name].Position = 2
    /\ Len(spec.column_fields) = 2
    /\ spec.column_fields[1].caption = ""
    /\ pivot_table.fields[spec.column_fields[2].name].Position = 2

---------------------------------------------------------------------------
(* C18 *)

RECURSIVE StatedDataCalls(_, _)
\* the calls the document states for the data fields, from the k-th on
StatedDataCalls(fields, k) ==
    IF k > Len(fields) THEN <<>>
    ELSE << Call("Orientation", fields[k].name, 4, ""),
            Call("Function", fields[k].name, StatedCode(fields[k].function), "") >>
         \o (IF Provided(fields[k].caption)
                THEN <<Call("Caption", fields[k].name, 0, fields[k].caption)>>
                ELSE <<>>)
         \o (IF Provided(fields[k].number_format)
                THEN <<Call("NumberFormat", fields[k].name, 0,
                            fields[k].number_format)>>
                ELSE <<>>)
         \o StatedDataCalls(fields, k + 1)

\* resolution created the destination
DestinationAdded == calls # <<>> /\ calls[1].op = "sheets.add"

\* every external call of a complete run, in the order the document states
StatedRun ==
    (IF DestinationAdded
        THEN <<Call("sheets.add", <<>>, 0, spec.pivot_sheet_name)>> ELSE <<>>)
    \o (IF ForceClear THEN <<Call("sheet.clear", <<>>, pivot_sheet, "")>> ELSE <<>>)
    \o << Call("PivotCaches.Create", <<>>, 1, spec.table_name),
          Call("CreatePivotTable", <<>>, pivot_sheet, spec.pivot_table_name) >>
    \o StatedAxisCalls(spec.row_fields, 1, 1)
    \o StatedAxisCalls(spec.column_fields, 2, 1)
    \o StatedDataCalls(spec.data_fields, 1)
    \o (IF Provided(spec.table_style)
            THEN <<Call("TableStyle2", <<>>, 0, spec.table_style)>> ELSE <<>>)
    \o <<Call("ShowTableStyleRowStripes", <<>>, 0, BoolText(spec.show_row_stripes))>>

IsPrefix(s, whole) == Len(s) <= Len(whole) /\ SubSeq(whole, 1, Len(s)) = s

\* C18: in every run of generate_pivot nothing is called before the whole
\* validation has passed; the external calls made so far are always the
\* first ones of the stated order (destination created when resolution
\* creates it, clear under EXISTING_FORCE_CLEAR, pivot cache from the source
\* table, pivot table at the anchor cell of the destination, all row fields,
\* all column fields, all data fields, table style when provided, row
\* stripes); a successful run has made all of them, the row-stripe flag last.
C18_StepsInOrder ==
    /\ pc = "validate" => (calls = <<>> /\ pivot_sheet = 0)
    /\ pc = "resolve" => (calls = <<>> /\ pivot_sheet = 0 /\ AllInvariantsHold)
    /\ calls # <<>> =>
        /\ AllInvariantsHold
        /\ pivot_sheet # 0
        /\ sheets[pivot_sheet].name = spec.pivot_sheet_name
        /\ IsPrefix(calls, StatedRun)
    /\ caches # <<>> =>
        /\ caches = << [source_type |-> 1,
                        sheet |-> FindListObject(sheets, spec.table_name),
                        table |-> spec.table_name] >>
        /\ \E k \in 1..Len(calls) : calls[k].op = "PivotCaches.Create"
    /\ pivot_table.created =>
        /\ caches # <<>>
        /\ pivot_table.sheet = pivot_sheet
        /\ pivot_table.cell = spec.pivot_top_left_cell
        /\ pivot_table.name = spec.pivot_table_name
    /\ Succeeded =>
        /\ calls = StatedRun
        /\ pivot_table.created
        /\ pivot_table.ShowTableStyleRowStripes = BoolText(spec.show_row_stripes)
        /\ pivot_table.TableStyle2 = spec.table_style

\* a successful run that went through every step: clear, cache, table,
\* row, column and data fields, style and stripes
C18_Witness ==
    /\ Succeeded
    /\ ForceClear
    /\ Len(spec.row_fields) = 2
    /\ Len(spec.column_fields) = 1
    /\ Len(spec.data_fields) = 2
    /\ Provided(spec.table_style)
    /\ calls[Len(calls)].op = "ShowTableStyleRowStripes"
    /\ calls[Len(calls) - 1].op = "TableStyle2"
    /\ calls[1].op = "sheet.clear"

---------------------------------------------------------------------------
(* C19 *)

StructuralReasons ==
    {"row_depth", "column_depth", "no_data_fields", "data_field_count",
     "unsupported_function"}

\* C19: a specification that violates a structural check (row-depth cap,
\* column-depth cap, empty data-field list, data-field count cap, illegal
\* function) ends generate_pivot in the ValidationError of a structural
\* check with no call made on the workbook: no ListObjects lookup of the
\* source table, no PivotTables enumeration, no lookup of the destination
\* sheet, and nothing created or cleared.
C19_StructuralChecksBeforeLookups ==
    (~StructureOk /\ pc # "validate") =>
        /\ pc = "done"
        /\ outcome.type = "ValidationError"
        /\ outcome.reason \in StructuralReasons
        /\ lookups = <<>>
        /\ NothingMutated

\* the row-depth cap is exceeded while the source table exists and the
\* destination exists
C19_Witness ==
    /\ pc = "done"
    /\ Len(spec.row_fields) > spec.max_row_fields
    /\ outcome = ValidationError("row_depth", <<>>)
    /\ TableExists
    /\ DestinationExists
    /\ lookups = <<>>

---------------------------------------------------------------------------
(* C20 *)

\* the engine raised in a statement after validation and resolution
EngineFailed == pc = "done" /\ outcome = EngineError /\ pivot_sheet # 0

Logged(op) == \E k \in 1..Len(calls) : calls[k].op = op

\* whatever the call log says was done is still in place
NothingRolledBack ==
    /\ Logged("PivotCaches.Create") <=> caches # <<>>
    /\ Logged("CreatePivotTable") <=> pivot_table.created
    /\ \A k \in 1..Len(calls) :
        /\ calls[k].op \in {"Orientation", "Position", "Function"}
            => /\ calls[k].field \in DOMAIN pivot_table.fields
               /\ pivot_table.fields[calls[k].field].Orientation # 0
        /\ calls[k].op = "Position"
            => pivot_table.fields[calls[k].field].Position # 0
        /\ calls[k].op = "Function"
            => pivot_table.fields[calls[k].field].Function # 0
    /\ DestinationAdded => sheets[pivot_sheet] = NewSheet(spec.pivot_sheet_name)
    /\ ForceClear => sheets[pivot_sheet].used = VNone

\* C20: when the engine raises in a statement after validation and
\* destination resolution have succeeded, generate_pivot ends there with the
\* engine's error, which is neither a ValidationError nor a DestinationError;
\* the calls made are the first ones of the stated order, none repeated and
\* none made after the failure; what they did stays: the cache, the pivot
\* table, the fields configured, a created or cleared destination; the
\* failing step changes nothing itself, and no step follows the end of the
\* call.
C20_EngineErrorPropagates ==
    /\ [](EngineFailed =>
            /\ outcome.type \notin {"ValidationError", "DestinationError", "ok"}
            /\ AllInvariantsHold
            /\ sheets[pivot_sheet].name = spec.pivot_sheet_name
            /\ IsPrefix(calls, StatedRun)
            /\ Len(calls) < Len(StatedRun)
            /\ NothingRolledBack)
    /\ [][ (pc \in EngineSteps /\ pc' = "done" /\ outcome' # NoError)
            => /\ outcome' = EngineError
               /\ UNCHANGED <<sheets, pivot_sheet, caches, pivot_table, calls>> ]_vars
    /\ [][pc # "done"]_vars

\* the engine raised after the destination was cleared and a row field was
\* configured, before any data field was
C20_Witness ==
    /\ EngineFailed
    /\ ForceClear
    /\ sheets[pivot_sheet].used = VNone
    /\ pivot_table.created
    /\ Logged("Position")
    /\ ~Logged("Function")
    /\ pivot_table.fields[spec.row_fields[1].name].Position # 0

---------------------------------------------------------------------------
(* C21 *)

\* the resolver's step added a sheet to the workbook
SheetCreated == ResolveCalled /\ sheets' # sheets

\* C21: destination resolution creates a sheet only when no sheet of the
\* requested name exists and destination_handling is None or NEW, whatever
\* value destination_handling holds (values outside the enumeration
\* included), so it never adds a second sheet with the name of an existing
\* one; the created sheet is placed after all existing sheets.
C21_CreatesOnlyWhenAbsentUnderNoneOrNew ==
    [][ SheetCreated
        => /\ ~DestinationExists
           /\ spec.destination_handling \in {None, HandlingNEW}
           /\ sheets' = Append(sheets, NewSheet(spec.pivot_sheet_name))
           /\ pivot_sheet' = Len(sheets') ]_vars

=============================================================================
